---- MODULE Spec2Model ----
(***************************************************************************)
(* The SOAP action/response layer of rust-igd (src/external.rs):           *)
(* get_external_ip, add_port and remove_port, each one round trip through  *)
(* soap::send followed by a pattern match on the response text.            *)
(*                                                                         *)
(* Texts (request bodies, urls, response texts, descriptions) are          *)
(* sequences of fragments; the text a sequence stands for is the           *)
(* concatenation of its fragments.  Digits, "." and the characters that    *)
(* matter to XML ("<", ">", "&") are fragments of one character; tags and  *)
(* the other literals of the source are one fragment each, except the two  *)
(* acknowledgement literals, which are split into "u:", "Add" / "Delete"   *)
(* and "PortMappingResponse" so that partial and mixed occurrences exist.  *)
(***************************************************************************)
EXTENDS Integers, Sequences, FiniteSets, TLC

VARIABLES
    pc,            \* per call: "idle", "waiting" (inside soap::send), "returned", "done"
    op,            \* per call: the public operation called
    args,          \* per call: the arguments of the call
    request,       \* per call: the url, action and body handed to soap::send
    sends,         \* per call: how many times soap::send was invoked
    reply,         \* per call: what soap::send returned
    parsed,        \* per call: whether the response parser ran
    result,        \* per call: what the call returned
    strictOctets   \* whether the build's Ipv4Addr parser rejects leading zeros

vars == <<pc, op, args, request, sends, reply, parsed, result, strictOctets>>

\* Number of calls in flight together.
NCalls == 2

Calls == 1..NCalls

----------------------------------------------------------------------------
(* Decimal text.                                                           *)

AsciiDigits == <<"0", "1", "2", "3", "4", "5", "6", "7", "8", "9">>

IsAsciiDigit(t) == \E v \in 1..10 : AsciiDigits[v] = t

DigitValue(t) == (CHOOSE v \in 1..10 : AsciiDigits[v] = t) - 1

\* A decimal digit that is not ASCII (ARABIC-INDIC DIGIT THREE, U+0663).
NonAsciiDigit == "U+0663"

\* Display of an unsigned integer: its decimal digits, no sign, no padding.
RECURSIVE DecDigits(_)
DecDigits(n) ==
    IF n < 10 THEN <<AsciiDigits[n + 1]>>
    ELSE DecDigits(n \div 10) \o <<AsciiDigits[(n % 10) + 1]>>

\* The number a run of ASCII digits denotes.
RECURSIVE DecValue(_)
DecValue(s) ==
    IF s = <<>> THEN 0
    ELSE 10 * DecValue(SubSeq(s, 1, Len(s) - 1)) + DigitValue(s[Len(s)])

\* Display of an Ipv4Addr: the four octets in decimal, joined by ".".
Ipv4Display(ip) ==
    DecDigits(ip[1]) \o <<".">> \o DecDigits(ip[2]) \o <<".">>
        \o DecDigits(ip[3]) \o <<".">> \o DecDigits(ip[4])

\* Display of PortMappingProtocol.
ProtocolDisplay(protocol) ==
    CASE protocol = "TCP" -> <<"TCP">>
      [] protocol = "UDP" -> <<"UDP">>

----------------------------------------------------------------------------
(* Results.                                                                *)

NoResult == [kind |-> "None", err |-> "-", cause |-> "-", val |-> <<>>]

Ok(v) == [kind |-> "Ok", err |-> "-", cause |-> "-", val |-> v]

InvalidResponse == [kind |-> "Err", err |-> "InvalidResponse", cause |-> "-", val |-> <<>>]

\* unwrap() on None: the call aborts instead of returning.
Panic == [kind |-> "Panic", err |-> "-", cause |-> "-", val |-> <<>>]

NoReply == [kind |-> "None", text |-> <<>>, cause |-> "-"]

\* impl From<soap::Error> for RequestError; the first form loses the IoError variant.
FromSoapErrorCollapsed(e) ==
    IF e.kind = "HttpError"
    THEN [kind |-> "Err", err |-> "HttpError", cause |-> e.cause, val |-> <<>>]
    ELSE InvalidResponse

FromSoapError(e) ==
    CASE e.kind = "HttpError" ->
            [kind |-> "Err", err |-> "HttpError", cause |-> e.cause, val |-> <<>>]
      [] e.kind = "IoError" ->
            [kind |-> "Err", err |-> "IoError", cause |-> e.cause, val |-> <<>>]

----------------------------------------------------------------------------
(* The response parser.                                                    *)

IpOpenTag == "<NewExternalIPAddress>"
IpCloseTag == "</NewExternalIPAddress>"

\* \d of the regex crate: any Unicode decimal digit.
IsRegexDigit(t) == IsAsciiDigit(t) \/ t = NonAsciiDigit

\* \d+ from position i: the position after the longest run of digits (i when
\* there is none).  "." is no digit, so no shorter run can match instead.
RECURSIVE DigitRunEnd(_, _)
DigitRunEnd(text, i) ==
    IF i <= Len(text) /\ IsRegexDigit(text[i]) THEN DigitRunEnd(text, i + 1) ELSE i

\* \d+(\.\d+){groups-1} from position i: the position after it, 0 for no match.
RECURSIVE QuadEnd(_, _, _)
QuadEnd(text, i, groups) ==
    LET e == DigitRunEnd(text, i) IN
    IF e = i THEN 0
    ELSE IF groups = 1 THEN e
    ELSE IF e <= Len(text) /\ text[e] = "." THEN QuadEnd(text, e + 1, groups - 1)
    ELSE 0

\* The regex of extract_address tried at position i: capture group 1, <<>> for no match.
CaptureAt(text, i) ==
    IF text[i] # IpOpenTag THEN <<>>
    ELSE LET e == QuadEnd(text, i + 1, 4) IN
         IF e # 0 /\ e <= Len(text) /\ text[e] = IpCloseTag
         THEN SubSeq(text, i + 1, e - 1)
         ELSE <<>>

\* re.captures(text) then cap.at(1): the capture of the leftmost match.
Captures(text) ==
    LET S == {i \in 1..Len(text) : CaptureAt(text, i) # <<>>} IN
    IF S = {} THEN <<>>
    ELSE CaptureAt(text, CHOOSE i \in S : \A j \in S : i <= j)

RECURSIVE SplitDots(_)
SplitDots(s) ==
    LET D == {i \in 1..Len(s) : s[i] = "."} IN
    IF D = {} THEN <<s>>
    ELSE LET k == CHOOSE i \in D : \A j \in D : i <= j IN
         <<SubSeq(s, 1, k - 1)>> \o SplitDots(SubSeq(s, k + 1, Len(s)))

\* One octet of str::parse::<Ipv4Addr>: up to three ASCII digits, at most 255;
\* a strict build also rejects a leading zero.  -1 for None.  The first form
\* has the range check off by one.
OctetOfOffByOne(g, strict) ==
    IF /\ Len(g) \in 1..3
       /\ \A i \in 1..Len(g) : IsAsciiDigit(g[i])
       /\ strict => (Len(g) = 1 \/ g[1] # "0")
       /\ DecValue(g) < 255
    THEN DecValue(g) ELSE -1

OctetOf(g, strict) ==
    IF /\ Len(g) \in 1..3
       /\ \A i \in 1..Len(g) : IsAsciiDigit(g[i])
       /\ strict => (Len(g) = 1 \/ g[1] # "0")
       /\ DecValue(g) <= 255
    THEN DecValue(g) ELSE -1

\* ip.parse::<Ipv4Addr>(): the four octets, <<>> for Err.
ParseIpv4(s, strict) ==
    LET g == SplitDots(s) IN
    IF Len(g) = 4 /\ \A i \in 1..4 : OctetOf(g[i], strict) >= 0
    THEN [i \in 1..4 |-> OctetOf(g[i], strict)]
    ELSE <<>>

extract_address(text, strict) ==
    LET cap == Captures(text) IN
    IF cap = <<>> THEN InvalidResponse
    ELSE LET ip == ParseIpv4(cap, strict) IN
         IF ip = <<>> THEN Panic ELSE Ok(ip)

\* The regexes of add_port and remove_port: literals, no metacharacter.
ADD_PORT_RESPONSE_RE == <<"u:", "Add", "PortMappingResponse">>
DELETE_PORT_RESPONSE_RE == <<"u:", "Delete", "PortMappingResponse">>

\* re.is_match(text) for a literal: scan for the first position it occurs at
\* (IsMatchAnchored looks at the start of the text only).
MatchesAt(re, text, i) ==
    /\ i + Len(re) - 1 <= Len(text)
    /\ \A k \in 1..Len(re) : text[i + k - 1] = re[k]

IsMatchAnchored(re, text) == MatchesAt(re, text, 1)

RECURSIVE ScanFrom(_, _, _)
ScanFrom(re, text, i) ==
    IF i + Len(re) - 1 > Len(text) THEN FALSE
    ELSE IF MatchesAt(re, text, i) THEN TRUE
    ELSE ScanFrom(re, text, i + 1)

IsMatch(re, text) == ScanFrom(re, text, 1)

----------------------------------------------------------------------------
(* The request builder.                                                    *)

EXTERNAL_IP_REQUEST ==
    << "<SOAP-ENV:Envelope SOAP-ENV:encodingStyle=\"http://schemas.xmlsoap.org/soap/encoding/\" xmlns:SOAP-ENV=\"http://schemas.xmlsoap.org/soap/envelope/\">",
       "\n", "    ", "<SOAP-ENV:Body>",
       "\n", "        ", "<m:GetExternalIPAddress xmlns:m=\"urn:schemas-upnp-org:service:WANIPConnection:1\">",
       "\n", "        ", "</m:GetExternalIPAddress>",
       "\n", "    ", "</SOAP-ENV:Body>",
       "\n", "</SOAP-ENV:Envelope>" >>

GET_EXTERNAL_IP_SOAP_ACTION ==
    "\"urn:schemas-upnp-org:service:WANIPConnection:1#GetExternalIPAddress\""

ADD_PORT_SOAP_ACTION ==
    "\"urn:schemas-upnp-org:service:WANIPConnection:1#AddPortMapping\""

DELETE_PORT_SOAP_ACTION ==
    "\"urn:schemas-upnp-org:service:WANIPConnection:1#DeletePortMapping\""

\* The body format! builds in add_port.
AddPortBody(protocol, external_port, local_addr, lease_duration, description) ==
    << "<?xml version=\"1.0\"?>",
       "\n", "<s:Envelope xmlns:s=\"http://schemas.xmlsoap.org/soap/envelope/\" s:encodingStyle=\"http://schemas.xmlsoap.org/soap/encoding/\">",
       "\n", "<s:Body>",
       "\n", "    ", "<u:AddPortMapping xmlns:u=\"urn:schemas-upnp-org:service:WANIPConnection:1\">",
       "\n", "        ", "<NewProtocol>" >>
    \o ProtocolDisplay(protocol)
    \o << "</NewProtocol>", "\n", "        ", "<NewExternalPort>" >>
    \o DecDigits(external_port)
    \o << "</NewExternalPort>", "\n", "        ", "<NewInternalClient>" >>
    \o Ipv4Display(local_addr.ip)
    \o << "</NewInternalClient>", "\n", "        ", "<NewInternalPort>" >>
    \o DecDigits(local_addr.port)
    \o << "</NewInternalPort>", "\n", "        ", "<NewLeaseDuration>" >>
    \o DecDigits(lease_duration)
    \o << "</NewLeaseDuration>", "\n", "        ", "<NewPortMappingDescription>" >>
    \o description
    \o << "</NewPortMappingDescription>",
          "\n", "        ", "<NewEnabled>", "1", "</NewEnabled>",
          "\n", "        ", "<NewRemoteHost>", "</NewRemoteHost>",
          "\n", "    ", "</u:AddPortMapping>",
          "\n", "</s:Body>",
          "\n", "</s:Envelope>",
          "\n" >>

\* The body format! builds in remove_port.
RemovePortBody(protocol, external_port) ==
    << "<?xml version=\"1.0\"?>",
       "\n", "<s:Envelope xmlns:s=\"http://schemas.xmlsoap.org/soap/envelope/\" s:encodingStyle=\"http://schemas.xmlsoap.org/soap/encoding/\">",
       "\n", "  ", "<s:Body>",
       "\n", "    ", "<u:DeletePortMapping xmlns:u=\"urn:schemas-upnp-org:service:WANIPConnection:1\">",
       "\n", "      ", "<NewProtocol>" >>
    \o ProtocolDisplay(protocol)
    \o << "</NewProtocol>", "\n", "      ", "<NewExternalPort>" >>
    \o DecDigits(external_port)
    \o << "</NewExternalPort>",
          "\n", "      ", "<NewRemoteHost>",
          "\n", "      ", "</NewRemoteHost>",
          "\n", "    ", "</u:DeletePortMapping>",
          "\n", "  ", "</s:Body>",
          "\n", "</s:Envelope>",
          "\n" >>

\* The url of get_external_ip: "http://{}:{}{}" of the address and the control url.
ExternalIpUrl(gateway) ==
    <<"http://">> \o Ipv4Display(gateway.addr.ip) \o <<":">>
        \o DecDigits(gateway.addr.port) \o <<gateway.control_url>>

\* Display of Gateway, the url of add_port and remove_port.
GatewayDisplay(gateway) ==
    <<"http://">> \o Ipv4Display(gateway.addr.ip) \o <<":">>
        \o DecDigits(gateway.addr.port) \o <<gateway.control_url>>

----------------------------------------------------------------------------
(* The calls.                                                              *)

NoArgs ==
    [gateway |-> [addr |-> [ip |-> <<0, 0, 0, 0>>, port |-> 0], control_url |-> ""],
     protocol |-> "-", external_port |-> 0,
     local_addr |-> [ip |-> <<0, 0, 0, 0>>, port |-> 0],
     lease_duration |-> 0, description |-> <<>>]

NoRequest == [url |-> <<>>, action |-> "", body |-> <<>>]

Init ==
    /\ pc = [c \in Calls |-> "idle"]
    /\ op = [c \in Calls |-> "none"]
    /\ args = [c \in Calls |-> NoArgs]
    /\ request = [c \in Calls |-> NoRequest]
    /\ sends = [c \in Calls |-> 0]
    /\ reply = [c \in Calls |-> NoReply]
    /\ parsed = [c \in Calls |-> FALSE]
    /\ result = [c \in Calls |-> NoResult]
    /\ strictOctets \in BOOLEAN

\* A call enters soap::send(url, action, body).  The first form keeps the
\* request in one buffer that the calls inside soap::send share.
SendSharedBuffer(c, name, a, url, action, body) ==
    /\ op' = [op EXCEPT ![c] = name]
    /\ args' = [args EXCEPT ![c] = a]
    /\ request' = [x \in Calls |->
                        IF x = c \/ pc[x] = "waiting"
                        THEN [url |-> url, action |-> action, body |-> body]
                        ELSE request[x]]
    /\ sends' = [sends EXCEPT ![c] = @ + 1]
    /\ pc' = [pc EXCEPT ![c] = "waiting"]
    /\ UNCHANGED <<reply, parsed, result, strictOctets>>

Send(c, name, a, url, action, body) ==
    /\ op' = [op EXCEPT ![c] = name]
    /\ args' = [args EXCEPT ![c] = a]
    /\ request' = [request EXCEPT ![c] = [url |-> url, action |-> action, body |-> body]]
    /\ sends' = [sends EXCEPT ![c] = @ + 1]
    /\ pc' = [pc EXCEPT ![c] = "waiting"]
    /\ UNCHANGED <<reply, parsed, result, strictOctets>>

\* get_external_ip up to its soap::send.
StartGetExternalIp(c, gateway) ==
    /\ pc[c] = "idle"
    /\ Send(c, "get_external_ip", [NoArgs EXCEPT !.gateway = gateway],
            ExternalIpUrl(gateway), GET_EXTERNAL_IP_SOAP_ACTION, EXTERNAL_IP_REQUEST)

\* add_port up to its soap::send.
StartAddPort(c, gateway, protocol, external_port, local_addr, lease_duration, description) ==
    /\ pc[c] = "idle"
    /\ Send(c, "add_port",
            [gateway |-> gateway, protocol |-> protocol, external_port |-> external_port,
             local_addr |-> local_addr, lease_duration |-> lease_duration,
             description |-> description],
            GatewayDisplay(gateway), ADD_PORT_SOAP_ACTION,
            AddPortBody(protocol, external_port, local_addr, lease_duration, description))

\* remove_port up to its soap::send.
StartRemovePort(c, gateway, protocol, external_port) ==
    /\ pc[c] = "idle"
    /\ Send(c, "remove_port",
            [NoArgs EXCEPT !.gateway = gateway, !.protocol = protocol,
                           !.external_port = external_port],
            GatewayDisplay(gateway), DELETE_PORT_SOAP_ACTION,
            RemovePortBody(protocol, external_port))

\* soap::send returns Ok(text).
SendOk(c, text) ==
    /\ pc[c] = "waiting"
    /\ reply' = [reply EXCEPT ![c] = [kind |-> "Ok", text |-> text, cause |-> "-"]]
    /\ pc' = [pc EXCEPT ![c] = "returned"]
    /\ UNCHANGED <<op, args, request, sends, parsed, result, strictOctets>>

\* soap::send returns Err(soap::Error::HttpError(cause)) or Err(soap::Error::IoError(cause)).
SendErr(c, kind, cause) ==
    /\ pc[c] = "waiting"
    /\ reply' = [reply EXCEPT ![c] = [kind |-> kind, text |-> <<>>, cause |-> cause]]
    /\ pc' = [pc EXCEPT ![c] = "returned"]
    /\ UNCHANGED <<op, args, request, sends, parsed, result, strictOctets>>

\* try!: an Err of soap::send is converted and returned at once.  The first
\* form sends the request again instead.
ReturnErrRetry(c) ==
    /\ reply[c].kind # "Ok"
    /\ sends[c] < 2
    /\ sends' = [sends EXCEPT ![c] = @ + 1]
    /\ reply' = [reply EXCEPT ![c] = NoReply]
    /\ pc' = [pc EXCEPT ![c] = "waiting"]
    /\ UNCHANGED <<op, args, request, parsed, result, strictOctets>>

ReturnErr(c) ==
    /\ reply[c].kind # "Ok"
    /\ result' = [result EXCEPT ![c] = FromSoapError(reply[c])]
    /\ pc' = [pc EXCEPT ![c] = "done"]
    /\ UNCHANGED <<op, args, request, sends, reply, parsed, strictOctets>>

\* The response parser ran and the call ended with r.
ReturnParsed(c, r) ==
    /\ reply[c].kind = "Ok"
    /\ parsed' = [parsed EXCEPT ![c] = TRUE]
    /\ result' = [result EXCEPT ![c] = r]
    /\ pc' = [pc EXCEPT ![c] = "done"]
    /\ UNCHANGED <<op, args, request, sends, reply, strictOctets>>

\* get_external_ip from the return of soap::send.
FinishGetExternalIp(c) ==
    /\ pc[c] = "returned"
    /\ op[c] = "get_external_ip"
    /\ \/ ReturnErr(c)
       \/ ReturnParsed(c, extract_address(reply[c].text, strictOctets))

\* add_port from the return of soap::send.
FinishAddPort(c) ==
    /\ pc[c] = "returned"
    /\ op[c] = "add_port"
    /\ \/ ReturnErr(c)
       \/ ReturnParsed(c, IF IsMatch(ADD_PORT_RESPONSE_RE, reply[c].text)
                          THEN Ok(<<>>) ELSE InvalidResponse)

\* remove_port from the return of soap::send.
FinishRemovePort(c) ==
    /\ pc[c] = "returned"
    /\ op[c] = "remove_port"
    /\ \/ ReturnErr(c)
       \/ ReturnParsed(c, IF IsMatch(DELETE_PORT_RESPONSE_RE, reply[c].text)
                          THEN Ok(<<>>) ELSE InvalidResponse)

----------------------------------------------------------------------------
(* Inputs.                                                                 *)

Gateway1 == [addr |-> [ip |-> <<192, 168, 1, 1>>, port |-> 5431], control_url |-> "/ctl/IPConn"]
Gateway2 == [addr |-> [ip |-> <<10, 0, 0, 138>>, port |-> 80], control_url |-> "/upnp/control/WANIPConn1"]

Gateways == {Gateway1, Gateway2}

Protocols == {"TCP", "UDP"}

LocalAddr1 == [ip |-> <<192, 168, 1, 42>>, port |-> 51413]
LocalAddr2 == [ip |-> <<10, 0, 0, 7>>, port |-> 0]

TransportErrors ==
    { [kind |-> "HttpError", cause |-> "timeout"],
      [kind |-> "IoError", cause |-> "refused"],
      [kind |-> "IoError", cause |-> "timeout"] }

IpElement(content) == <<IpOpenTag>> \o content \o <<IpCloseTag>>

AddAckText == <<"<", "u:", "Add", "PortMappingResponse", ">", "</", "u:", "Add", "PortMappingResponse", ">">>
DeleteAckText == <<"<", "u:", "Delete", "PortMappingResponse", ">", "</", "u:", "Delete", "PortMappingResponse", ">">>

\* The replies of the concurrent specification.
FewTexts ==
    { <<"<s:Body>">> \o IpElement(Ipv4Display(<<203, 0, 113, 7>>)) \o <<"</s:Body>">>,
      IpElement(<<"9", "9", "9", ".", "1", ".", "1", ".", "1">>),
      AddAckText,
      DeleteAckText }

----------------------------------------------------------------------------
(* Spec: NCalls calls in flight together, in any interleaving.             *)

Next ==
    \E c \in Calls :
        \/ \E g \in Gateways : StartGetExternalIp(c, g)
        \/ StartAddPort(c, Gateway1, "TCP", 51413, LocalAddr1, 0, <<"test">>)
        \/ StartRemovePort(c, Gateway1, "UDP", 500)
        \/ \E text \in FewTexts : SendOk(c, text)
        \/ \E e \in TransportErrors : SendErr(c, e.kind, e.cause)
        \/ FinishGetExternalIp(c)
        \/ FinishAddPort(c)
        \/ FinishRemovePort(c)

Spec == Init /\ [][Next]_vars

----------------------------------------------------------------------------
(* SpecText: one call, its arguments fixed, over many response texts.      *)

SampleOctets == {0, 7, 192, 255}

SampleQuads == SampleOctets \X SampleOctets \X SampleOctets \X SampleOctets

GoodGroups == {DecDigits(n) : n \in SampleOctets}

BadGroups ==
    { <<"2", "5", "6">>, <<"9", "9", "9">>, <<"0", "1">>, <<"0", "0", "7">>,
      <<"0", "2", "5", "5">>, <<NonAsciiDigit>>, <<"x">>, <<"1", "x">>, <<>> }

OddContents ==
    { <<>>,
      <<"1", ".", "2", ".", "3">>,
      <<"1", ".", "2", ".", "3", ".", "4", ".", "5">>,
      <<" ", "1", ".", "2", ".", "3", ".", "4">>,
      <<"1", ".", "2", ".", "3", ".", "4", " ">>,
      <<"-", "1", ".", "2", ".", "3", ".", "4">>,
      <<"1", ".", ".", "2", ".", "3">> }

ElementContents ==
    { g1 \o <<".">> \o g2 \o <<".", "7", ".">> \o g4 :
        g1 \in GoodGroups \cup BadGroups,
        g2 \in {<<"0">>, <<"2", "5", "5">>},
        g4 \in GoodGroups \cup {<<"2", "5", "6">>, <<"x">>} }
    \cup OddContents

IpPrefixes ==
    { <<>>, <<"x">>, <<"<s:Body>">>, <<IpOpenTag>>,
      IpElement(<<"9", "9", "9", ".", "1", ".", "1", ".", "1">>),
      IpElement(<<"8", ".", "8", ".", "8", ".", "8">>) }

IpSuffixes ==
    { <<>>, <<"</s:Body>">>, IpElement(<<"9", ".", "9", ".", "9", ".", "9">>) }

IpTexts ==
    { pre \o IpElement(content) \o post :
        pre \in IpPrefixes, content \in ElementContents, post \in IpSuffixes }

AckCores ==
    { <<>>,
      <<"u:", "Add", "PortMappingResponse">>,
      <<"u:", "Delete", "PortMappingResponse">>,
      <<"u:", "PortMappingResponse">>,
      <<"Add", "PortMappingResponse">>,
      <<"m:", "Add", "PortMappingResponse">>,
      <<"u:", "Add", "x", "PortMappingResponse">>,
      <<"u:", "Add", "Delete", "PortMappingResponse">>,
      <<"u:", "Delete">> }

AckPrefixes ==
    { <<>>, <<"<">>, <<"u:">>, <<"u:", "Add">>,
      <<"<s:Fault>", "<faultstring>">>, DeleteAckText }

AckSuffixes ==
    { <<>>, <<">">>, <<"</faultstring>", "</s:Fault>">>, AddAckText }

AckTexts ==
    { pre \o core \o post :
        pre \in AckPrefixes, core \in AckCores, post \in AckSuffixes }

TextSamples == IpTexts \cup AckTexts

NextText ==
    \E c \in {1} :
        \/ StartGetExternalIp(c, Gateway1)
        \/ StartAddPort(c, Gateway1, "TCP", 51413, LocalAddr1, 0, <<"test">>)
        \/ StartRemovePort(c, Gateway1, "UDP", 500)
        \/ \E text \in TextSamples : SendOk(c, text)
        \/ \E e \in TransportErrors : SendErr(c, e.kind, e.cause)
        \/ FinishGetExternalIp(c)
        \/ FinishAddPort(c)
        \/ FinishRemovePort(c)

SpecText == Init /\ [][NextText]_vars

----------------------------------------------------------------------------
(* SpecBody: one call over many arguments.                                 *)

SamplePorts == {0, 500, 51413, 65535}

\* lease_duration is a u32; TLC's integers end at 2^31 - 1.
SampleLeases == {0, 3600, 2147483647}

SampleDescriptions ==
    { <<>>, <<"test">>, <<"my", " ", "app">>,
      <<"a", ">", "b">>, <<"a", "<", "b">>, <<"a", "&", "b">>,
      <<"<NewRemoteHost>", "</NewRemoteHost>">>,
      <<"x", "</NewPortMappingDescription>", "<NewEnabled>", "0", "</NewEnabled>",
        "<NewPortMappingDescription>">> }

NextBody ==
    \E c \in {1} :
        \/ \E g \in Gateways : StartGetExternalIp(c, g)
        \/ \E g \in Gateways, p \in Protocols, e \in SamplePorts,
              l \in {LocalAddr1, LocalAddr2}, d \in SampleLeases,
              s \in SampleDescriptions :
                StartAddPort(c, g, p, e, l, d, s)
        \/ \E g \in Gateways, p \in Protocols, e \in SamplePorts :
                StartRemovePort(c, g, p, e)
        \/ \E text \in FewTexts : SendOk(c, text)
        \/ \E e \in TransportErrors : SendErr(c, e.kind, e.cause)
        \/ FinishGetExternalIp(c)
        \/ FinishAddPort(c)
        \/ FinishRemovePort(c)

SpecBody == Init /\ [][NextBody]_vars

----------------------------------------------------------------------------
(* Reading a text the way the claims speak of it.                          *)

Sent(c) == pc[c] # "idle"
Done(c) == pc[c] = "done"
GotText(c) == Done(c) /\ reply[c].kind = "Ok"

\* sub occurs in text as a contiguous part.
Contains(text, sub) ==
    \E i \in 1..(Len(text) - Len(sub) + 1) : SubSeq(text, i, i + Len(sub) - 1) = sub

\* text holds the element <NewExternalIPAddress>lit</NewExternalIPAddress> at p.
ElementAt(text, p, lit) ==
    /\ p + Len(lit) + 1 <= Len(text)
    /\ text[p] = IpOpenTag
    /\ SubSeq(text, p + 1, p + Len(lit)) = lit
    /\ text[p + Len(lit) + 1] = IpCloseTag

\* A whole NewExternalIPAddress element lies before position p.
ElementBefore(text, p) ==
    \E i, j \in 1..(p - 1) : i < j /\ text[i] = IpOpenTag /\ text[j] = IpCloseTag

\* The contents of the NewExternalIPAddress elements of text.
IpContents(text) ==
    { SubSeq(text, i + 1, j - 1) :
        <<i, j>> \in { ij \in (1..Len(text)) \X (1..Len(text)) :
                        /\ ij[1] < ij[2]
                        /\ text[ij[1]] = IpOpenTag
                        /\ text[ij[2]] = IpCloseTag
                        /\ \A k \in (ij[1] + 1)..(ij[2] - 1) : text[k] # IpCloseTag } }

\* s is a dotted quad: four groups of one to three ASCII digits, each at most 255.
IsDottedQuad(s) ==
    LET g == SplitDots(s) IN
    /\ Len(g) = 4
    /\ \A i \in 1..4 :
        /\ Len(g[i]) \in 1..3
        /\ \A k \in 1..Len(g[i]) : IsAsciiDigit(g[i][k])
        /\ DecValue(g[i]) <= 255

\* s is the decimal text of n, without sign or padding.
IsDecimalOf(s, n) ==
    /\ s # <<>>
    /\ \A k \in 1..Len(s) : IsAsciiDigit(s[k])
    /\ Len(s) = 1 \/ s[1] # "0"
    /\ DecValue(s) = n

IsQuadOf(s, ip) ==
    LET g == SplitDots(s) IN
    Len(g) = 4 /\ \A i \in 1..4 : IsDecimalOf(g[i], ip[i])

XmlDecl == "<?xml version=\"1.0\"?>"

XmlSpace == {"\n", " ", "  ", "    ", "      ", "        "}

StartTagName ==
    ("<s:Envelope xmlns:s=\"http://schemas.xmlsoap.org/soap/envelope/\" s:encodingStyle=\"http://schemas.xmlsoap.org/soap/encoding/\">" :> "s:Envelope")
    @@ ("<s:Body>" :> "s:Body")
    @@ ("<u:AddPortMapping xmlns:u=\"urn:schemas-upnp-org:service:WANIPConnection:1\">" :> "u:AddPortMapping")
    @@ ("<u:DeletePortMapping xmlns:u=\"urn:schemas-upnp-org:service:WANIPConnection:1\">" :> "u:DeletePortMapping")
    @@ ("<SOAP-ENV:Envelope SOAP-ENV:encodingStyle=\"http://schemas.xmlsoap.org/soap/encoding/\" xmlns:SOAP-ENV=\"http://schemas.xmlsoap.org/soap/envelope/\">" :> "SOAP-ENV:Envelope")
    @@ ("<SOAP-ENV:Body>" :> "SOAP-ENV:Body")
    @@ ("<m:GetExternalIPAddress xmlns:m=\"urn:schemas-upnp-org:service:WANIPConnection:1\">" :> "m:GetExternalIPAddress")
    @@ ("<NewProtocol>" :> "NewProtocol")
    @@ ("<NewExternalPort>" :> "NewExternalPort")
    @@ ("<NewInternalClient>" :> "NewInternalClient")
    @@ ("<NewInternalPort>" :> "NewInternalPort")
    @@ ("<NewLeaseDuration>" :> "NewLeaseDuration")
    @@ ("<NewPortMappingDescription>" :> "NewPortMappingDescription")
    @@ ("<NewEnabled>" :> "NewEnabled")
    @@ ("<NewRemoteHost>" :> "NewRemoteHost")

EndTagName ==
    ("</s:Envelope>" :> "s:Envelope")
    @@ ("</s:Body>" :> "s:Body")
    @@ ("</u:AddPortMapping>" :> "u:AddPortMapping")
    @@ ("</u:DeletePortMapping>" :> "u:DeletePortMapping")
    @@ ("</SOAP-ENV:Envelope>" :> "SOAP-ENV:Envelope")
    @@ ("</SOAP-ENV:Body>" :> "SOAP-ENV:Body")
    @@ ("</m:GetExternalIPAddress>" :> "m:GetExternalIPAddress")
    @@ ("</NewProtocol>" :> "NewProtocol")
    @@ ("</NewExternalPort>" :> "NewExternalPort")
    @@ ("</NewInternalClient>" :> "NewInternalClient")
    @@ ("</NewInternalPort>" :> "NewInternalPort")
    @@ ("</NewLeaseDuration>" :> "NewLeaseDuration")
    @@ ("</NewPortMappingDescription>" :> "NewPortMappingDescription")
    @@ ("</NewEnabled>" :> "NewEnabled")
    @@ ("</NewRemoteHost>" :> "NewRemoteHost")

IsStartTag(t) == t \in DOMAIN StartTagName
IsEndTag(t) == t \in DOMAIN EndTagName

\* Well-formedness: an optional declaration first, one root element, every end
\* tag closing the innermost open element, no "<" or "&" in character data, no
\* character data outside the root.
RECURSIVE XmlScan(_, _, _, _)
XmlScan(body, i, stack, roots) ==
    IF i > Len(body) THEN stack = <<>> /\ roots = 1
    ELSE LET t == body[i] IN
         CASE t = XmlDecl -> i = 1 /\ XmlScan(body, i + 1, stack, roots)
           [] t \in XmlSpace -> XmlScan(body, i + 1, stack, roots)
           [] IsStartTag(t) ->
                IF stack = <<>>
                THEN roots = 0 /\ XmlScan(body, i + 1, <<StartTagName[t]>>, 1)
                ELSE XmlScan(body, i + 1, <<StartTagName[t]>> \o stack, roots)
           [] IsEndTag(t) ->
                /\ stack # <<>>
                /\ Head(stack) = EndTagName[t]
                /\ XmlScan(body, i + 1, Tail(stack), roots)
           [] t \in {"<", "&"} -> FALSE
           [] OTHER -> stack # <<>> /\ XmlScan(body, i + 1, stack, roots)

WellFormed(body) == XmlScan(body, 1, <<>>, 0)

IsTag(t) == IsStartTag(t) \/ IsEndTag(t)

\* The element structure of a body: its tags in order, each as <<"start", name>> or <<"end", name>>.
Skeleton(body) ==
    LET tags == SelectSeq(body, IsTag) IN
    [i \in 1..Len(tags) |->
        IF IsStartTag(tags[i]) THEN <<"start", StartTagName[tags[i]]>>
        ELSE <<"end", EndTagName[tags[i]]>>]

Nest(name, inner) == <<<<"start", name>>>> \o inner \o <<<<"end", name>>>>

Leaf(name) == Nest(name, <<>>)

\* The envelope structure each operation means to send.
IntendedSkeleton(name) ==
    CASE name = "get_external_ip" ->
            Nest("SOAP-ENV:Envelope", Nest("SOAP-ENV:Body", Leaf("m:GetExternalIPAddress")))
      [] name = "add_port" ->
            Nest("s:Envelope", Nest("s:Body", Nest("u:AddPortMapping",
                Leaf("NewProtocol") \o Leaf("NewExternalPort") \o Leaf("NewInternalClient")
                \o Leaf("NewInternalPort") \o Leaf("NewLeaseDuration")
                \o Leaf("NewPortMappingDescription") \o Leaf("NewEnabled")
                \o Leaf("NewRemoteHost"))))
      [] name = "remove_port" ->
            Nest("s:Envelope", Nest("s:Body", Nest("u:DeletePortMapping",
                Leaf("NewProtocol") \o Leaf("NewExternalPort") \o Leaf("NewRemoteHost"))))

Malformed == [name |-> "#malformed", content |-> <<>>]

\* The children from position i up to the end tag of parent: each a name and
\* the text between its tags; white space between children is skipped.
RECURSIVE Kids(_, _, _)
Kids(body, i, parent) ==
    IF i > Len(body) THEN <<Malformed>>
    ELSE LET t == body[i] IN
         CASE t \in XmlSpace -> Kids(body, i + 1, parent)
           [] IsEndTag(t) -> IF EndTagName[t] = parent THEN <<>> ELSE <<Malformed>>
           [] IsStartTag(t) ->
                LET J == {j \in (i + 1)..Len(body) : IsTag(body[j])} IN
                IF J = {} THEN <<Malformed>>
                ELSE LET j == CHOOSE x \in J : \A y \in J : x <= y IN
                     IF IsEndTag(body[j]) /\ EndTagName[body[j]] = StartTagName[t]
                     THEN <<[name |-> StartTagName[t], content |-> SubSeq(body, i + 1, j - 1)]>>
                            \o Kids(body, j + 1, parent)
                     ELSE <<Malformed>>
           [] OTHER -> <<Malformed>>

\* The children of the element named parent in body.
Children(body, parent) ==
    LET P == {i \in 1..Len(body) : IsStartTag(body[i]) /\ StartTagName[body[i]] = parent} IN
    IF ~WellFormed(body) \/ P = {} THEN <<Malformed>>
    ELSE Kids(body, (CHOOSE i \in P : \A j \in P : i <= j) + 1, parent)

----------------------------------------------------------------------------
(* The claims.                                                             *)

QuadLiteral == [q \in SampleQuads |-> Ipv4Display(q)]

\* C1: a response text that holds <NewExternalIPAddress>a.b.c.d</NewExternalIPAddress>,
\* each octet written in decimal and in 0..255, with no whole such element before
\* it, makes get_external_ip return Ok with exactly a.b.c.d, whatever surrounds it.
C1_ValidElementParses ==
    \A c \in Calls :
        (GotText(c) /\ op[c] = "get_external_ip") =>
            \A p \in 1..Len(reply[c].text) :
                (reply[c].text[p] = IpOpenTag /\ ~ElementBefore(reply[c].text, p)) =>
                    \A q \in SampleQuads :
                        ElementAt(reply[c].text, p, QuadLiteral[q]) => result[c] = Ok(q)

\* A valid element with text before and after it was parsed to its address.
C1_Witness ==
    \E c \in Calls :
        /\ GotText(c) /\ op[c] = "get_external_ip"
        /\ \E p \in 2..Len(reply[c].text), q \in SampleQuads :
            /\ q[1] = 255 /\ q[4] = 192
            /\ ElementAt(reply[c].text, p, QuadLiteral[q])
            /\ ~ElementBefore(reply[c].text, p)
            /\ p + Len(QuadLiteral[q]) + 1 < Len(reply[c].text)
            /\ result[c] = Ok(q)

\* C2: when no NewExternalIPAddress element of the response text holds a valid
\* dotted quad (none is there, or the content is not numeric, has the wrong
\* number of groups or a group above 255), get_external_ip returns
\* Err(InvalidResponse): no Ok, no abort.
C2_InvalidContentIsInvalidResponse ==
    \A c \in Calls :
        (/\ GotText(c) /\ op[c] = "get_external_ip"
         /\ \A s \in IpContents(reply[c].text) : ~IsDottedQuad(s))
            => result[c] = InvalidResponse

\* C3: given a response text, add_port returns Ok(()) iff the text contains
\* u:AddPortMappingResponse and remove_port iff it contains
\* u:DeletePortMappingResponse, anywhere; otherwise Err(InvalidResponse).
C3_AckIffTagPresent ==
    \A c \in Calls :
        GotText(c) =>
            /\ op[c] = "add_port" =>
                result[c] = IF Contains(reply[c].text, <<"u:", "Add", "PortMappingResponse">>)
                            THEN Ok(<<>>) ELSE InvalidResponse
            /\ op[c] = "remove_port" =>
                result[c] = IF Contains(reply[c].text, <<"u:", "Delete", "PortMappingResponse">>)
                            THEN Ok(<<>>) ELSE InvalidResponse

\* add_port took the tag inside a SOAP Fault for its acknowledgement.
C3_Witness ==
    \E c \in Calls :
        /\ GotText(c) /\ op[c] = "add_port"
        /\ reply[c].text = <<"<s:Fault>", "<faultstring>", "u:", "Add", "PortMappingResponse",
                             "</faultstring>", "</s:Fault>">>
        /\ result[c] = Ok(<<>>)

\* C4: when soap::send fails with an error e, the call returns a transport
\* failure wrapping that same e: not Ok, not InvalidResponse, and the response
\* parser does not run.
C4_TransportFailureWrapped ==
    \A c \in Calls :
        (Done(c) /\ reply[c].kind \in {"HttpError", "IoError"}) =>
            /\ result[c].kind = "Err"
            /\ result[c].err = reply[c].kind
            /\ result[c].cause = reply[c].cause
            /\ ~parsed[c]

\* add_port ended in an I/O failure of the transport, wrapped as IoError.
C4_Witness ==
    \E c \in Calls :
        /\ Done(c) /\ op[c] = "add_port"
        /\ reply[c] = [kind |-> "IoError", text |-> <<>>, cause |-> "refused"]
        /\ result[c].err = "IoError" /\ result[c].cause = "refused"

\* C5: every call ends with one outcome, success or one error, and the error is
\* a transport failure carrying the transport's error (HttpError and IoError
\* are the transport's two failures) or InvalidResponse.
C5_SuccessOrOneError ==
    \A c \in Calls :
        Done(c) =>
            \/ result[c].kind = "Ok"
            \/ /\ result[c].kind = "Err"
               /\ \/ result[c].err = "InvalidResponse"
                  \/ result[c].err \in {"HttpError", "IoError"} /\ result[c].cause # "-"

\* C6: the body add_port sends has, inside AddPortMapping, exactly the children
\* NewProtocol, NewExternalPort, NewInternalClient, NewInternalPort,
\* NewLeaseDuration, NewPortMappingDescription, NewEnabled (1) and NewRemoteHost
\* (empty), in this order, each holding the argument it stands for.
C6_AddPortChildren ==
    \A c \in Calls :
        (Sent(c) /\ op[c] = "add_port") =>
            LET k == Children(request[c].body, "u:AddPortMapping")
                a == args[c]
            IN  /\ Len(k) = 8
                /\ k[1] = [name |-> "NewProtocol", content |-> <<a.protocol>>]
                /\ k[2].name = "NewExternalPort"
                /\ IsDecimalOf(k[2].content, a.external_port)
                /\ k[3].name = "NewInternalClient"
                /\ IsQuadOf(k[3].content, a.local_addr.ip)
                /\ k[4].name = "NewInternalPort"
                /\ IsDecimalOf(k[4].content, a.local_addr.port)
                /\ k[5].name = "NewLeaseDuration"
                /\ IsDecimalOf(k[5].content, a.lease_duration)
                /\ k[6] = [name |-> "NewPortMappingDescription", content |-> a.description]
                /\ k[7] = [name |-> "NewEnabled", content |-> <<"1">>]
                /\ k[8] = [name |-> "NewRemoteHost", content |-> <<>>]

\* C7: the body remove_port sends has, inside DeletePortMapping, exactly the
\* children NewProtocol, NewExternalPort and NewRemoteHost in this order, and
\* nothing at all stands between the tags of NewRemoteHost.
C7_RemovePortChildren ==
    \A c \in Calls :
        (Sent(c) /\ op[c] = "remove_port") =>
            LET k == Children(request[c].body, "u:DeletePortMapping")
                a == args[c]
            IN  /\ Len(k) = 3
                /\ k[1] = [name |-> "NewProtocol", content |-> <<a.protocol>>]
                /\ k[2].name = "NewExternalPort"
                /\ IsDecimalOf(k[2].content, a.external_port)
                /\ k[3] = [name |-> "NewRemoteHost", content |-> <<>>]

\* C8: every body handed to the transport is well-formed XML with the envelope
\* structure its operation intends, whatever the arguments (a description
\* holding "<", ">" or "&" included).
C8_BodiesWellFormed ==
    \A c \in Calls :
        Sent(c) =>
            /\ WellFormed(request[c].body)
            /\ Skeleton(request[c].body) = IntendedSkeleton(op[c])

\* C9: what a call sends and returns depends on its own arguments and its own
\* reply only: calls with equal arguments send equal requests, calls with equal
\* arguments and replies return equal results, every GetExternalIPAddress body
\* is the same, and no step of one call changes what another sent or returned.
C9_CallsIndependent ==
    /\ [](\A c1, c2 \in Calls :
            /\ (Sent(c1) /\ Sent(c2) /\ op[c1] = op[c2] /\ args[c1] = args[c2])
                    => request[c1] = request[c2]
            /\ (Done(c1) /\ Done(c2) /\ op[c1] = op[c2] /\ args[c1] = args[c2]
                    /\ reply[c1] = reply[c2])
                    => result[c1] = result[c2]
            /\ (Sent(c1) /\ Sent(c2) /\ op[c1] = "get_external_ip"
                    /\ op[c2] = "get_external_ip")
                    => request[c1].body = request[c2].body)
    /\ [][\A c \in Calls :
            /\ Sent(c) => (op'[c] = op[c] /\ args'[c] = args[c] /\ request'[c] = request[c])
            /\ pc[c] \in {"returned", "done"} => reply'[c] = reply[c]
            /\ Done(c) => (pc'[c] = "done" /\ result'[c] = result[c])]_vars

\* Two calls of get_external_ip to different gateways overlapped and got
\* different replies.
C9_Witness ==
    \E c1, c2 \in Calls :
        /\ c1 # c2
        /\ op[c1] = "get_external_ip" /\ op[c2] = "get_external_ip"
        /\ args[c1] # args[c2]
        /\ Done(c1) /\ pc[c2] = "returned"
        /\ result[c1].kind = "Ok" /\ reply[c2].kind = "IoError"

\* C10: each call invokes soap::send exactly once, with the body built and the
\* SOAPAction value of its own action, before any parsing; no call sends again,
\* whether it ended in a transport failure, an invalid response or success.
C10_OneSendPerCall ==
    \A c \in Calls :
        /\ pc[c] = "idle" => (sends[c] = 0 /\ request[c] = NoRequest /\ ~parsed[c])
        /\ Sent(c) =>
            /\ sends[c] = 1
            /\ request[c].body # <<>>
            /\ request[c].action =
                 CASE op[c] = "get_external_ip" ->
                        "\"urn:schemas-upnp-org:service:WANIPConnection:1#GetExternalIPAddress\""
                   [] op[c] = "add_port" ->
                        "\"urn:schemas-upnp-org:service:WANIPConnection:1#AddPortMapping\""
                   [] op[c] = "remove_port" ->
                        "\"urn:schemas-upnp-org:service:WANIPConnection:1#DeletePortMapping\""
        /\ pc[c] = "waiting" => (~parsed[c] /\ reply[c] = NoReply /\ result[c] = NoResult)
        /\ parsed[c] => (Done(c) /\ reply[c].kind = "Ok")

\* A call that ended in a transport failure sent once, and so did one that
\* ended in an invalid response.
C10_Witness ==
    \E c1, c2 \in Calls :
        /\ Done(c1) /\ result[c1].err = "HttpError" /\ sends[c1] = 1
        /\ Done(c2) /\ result[c2] = InvalidResponse /\ sends[c2] = 1

====
